---- MODULE Spec2Model ----
(***************************************************************************)
(* Model of src/abetterworld/src/decode/native.cc: the Draco mesh decode   *)
(* bridge.  decode_draco_mesh_interleaved turns a decoded draco::Mesh into *)
(* an interleaved Vertex array and a flat index array owned by the caller; *)
(* free_decoded_mesh releases both arrays.                                 *)
(*                                                                         *)
(* Floats are modelled by naturals: 0 is 0.0f, 1 is 1.0f, and every source *)
(* attribute component is a distinct value >= 100, so that a component     *)
(* copied from the wrong attribute, entry or slot is visible.              *)
(* The draco library is external: a decoded mesh is given by its point     *)
(* count, its attribute list (role, component count, point -> entry map,   *)
(* entries of 32-bit floats) and its faces, whose corners are points of    *)
(* the mesh.  Positions and normals carry 3 floats and texture coordinates *)
(* 2, as the Vertex layout expects; the component count of a colour        *)
(* attribute varies, as the code reads it at run time.                     *)
(*                                                                         *)
(* A colour attribute of more than 4 components makes the colour step      *)
(* write past float color[4] and past v.color: the behaviour is undefined, *)
(* and the call either returns or kills the process.                       *)
(***************************************************************************)
EXTENDS Integers, Sequences, FiniteSets, TLC

\* ---------------------------------------------------------------- bounds
MaxPoints == 3
MaxFaces == 2
MaxAttrs == 4
MaxColorComps == 5
MaxAllocs == 4

\* ------------------------------------------------- Vertex layout (floats)
\* struct Vertex: position[3], normal[3], color[4], texcoord0[2], texcoord1[2]
OffPosition == 0
OffNormal == 3
OffColor == 6
OffTexcoord0 == 10
OffTexcoord1 == 12
VertexFloats == 14
ColorFloats == 4

NULL == 0

position(v)  == [k \in 0..2 |-> v[OffPosition + k]]
normal(v)    == [k \in 0..2 |-> v[OffNormal + k]]
color(v)     == [k \in 0..(ColorFloats - 1) |-> v[OffColor + k]]
texcoord0(v) == [k \in 0..1 |-> v[OffTexcoord0 + k]]
texcoord1(v) == [k \in 0..1 |-> v[OffTexcoord1 + k]]

\* Vertex v = {};
ZeroVertex == [k \in 0..(VertexFloats - 1) |-> 0]

\* ------------------------------------------------------- the source mesh
AttributeTypes == {"POSITION", "NORMAL", "COLOR", "TEX_COORD"}

\* Component count of an attribute of the given role; c is the mesh's colour
\* component count.
NumComponents(type, c) ==
    CASE type = "POSITION"  -> 3
      [] type = "NORMAL"    -> 3
      [] type = "TEX_COORD" -> 2
      [] type = "COLOR"     -> c

\* The attribute at position a (0-based) of a mesh with n points: its entries
\* are distinct per (attribute, entry, component), and its point -> entry map
\* is the identity rotated by a, so that maps differ between attributes.
MkAttribute(type, a, n, c) ==
    [ attribute_type |-> type,
      num_components |-> NumComponents(type, c),
      indices_map    |-> [i \in 0..(n - 1) |-> (i + a) % n],
      values         |-> [avi \in 0..(n - 1) |->
                            [k \in 0..(NumComponents(type, c) - 1) |->
                                100 * (a + 1) + 10 * avi + k]] ]

\* Corner j of face f: the faces walk the points upwards, three distinct
\* points each.
MkFace(f, n) == [j \in 0..2 |-> (f + j) % n]

MkMesh(n, types, c, nf) ==
    [ num_points |-> n,
      attributes |-> [a \in 1..Len(types) |-> MkAttribute(types[a], a - 1, n, c)],
      faces      |-> [f \in 1..nf |-> MkFace(f - 1, n)] ]

TypeLists == UNION {[1..l -> AttributeTypes] : l \in 0..MaxAttrs}

Count(types, type) == Cardinality({a \in 1..Len(types) : types[a] = type})

\* The component counts a stream's colour attribute can have; a stream
\* without colour attribute has none.
ColorCounts(types) ==
    IF Count(types, "COLOR") > 0 THEN 1..MaxColorComps ELSE {0}

\* A mesh has faces only when it has the three points of a triangle.
FaceCounts(n) == IF n >= 3 THEN 0..MaxFaces ELSE {0}

\* A valid encoded stream is given by what it encodes: point count, attribute
\* roles in list order (any number of texture-coordinate sets, at most one
\* attribute of each other role), colour component count, face count.
IsStream(s) ==
    \E n \in 0..MaxPoints, types \in TypeLists :
        /\ \A type \in AttributeTypes \ {"TEX_COORD"} : Count(types, type) <= 1
        /\ \E c \in ColorCounts(types), nf \in FaceCounts(n) :
              s = [n |-> n, types |-> types, c |-> c, nf |-> nf]

\* draco::Mesh accessors
num_attributes(m) == Len(m.attributes)
attribute(m, i) == m.attributes[i + 1]
num_faces(m) == Len(m.faces)
face(m, f) == m.faces[f + 1]

\* nullptr for a PointAttribute pointer
NoAttr == [attribute_type |-> "NONE"]
IsNull(att) == att.attribute_type = "NONE"

\* Mesh::GetNamedAttribute: the first attribute of the role, or nullptr.
GetNamedAttribute(m, type) ==
    LET ids == {i \in 0..(num_attributes(m) - 1) :
                    attribute(m, i).attribute_type = type}
    IN  IF ids = {} THEN NoAttr
        ELSE attribute(m, CHOOSE i \in ids : \A j \in ids : i <= j)

mapped_index(att, i) == att.indices_map[i]

\* PointAttribute::GetValue copies the entry's num_components floats to the
\* destination, whatever the destination's size: the result is the function
\* from destination slot to the float written there.
GetValue(att, avi) == att.values[avi]

\* ------------------------------------------------ decode: the vertex loop
\* Write the floats vals[0..n-1] to slots off..off+n-1 of vertex v; a write
\* past the end of v does not land in v.
Store(v, off, vals, n) ==
    [k \in DOMAIN v |-> IF off <= k /\ k < off + n THEN vals[k - off] ELSE v[k]]

\* A C array literal: slot k holds the (k+1)-th listed float.
Floats(list) == [k \in 0..(Len(list) - 1) |-> list[k + 1]]

\* texcoord_attrs / texcoord_found scan: attributes i, i+1, ... are visited
\* while fewer than 2 texture-coordinate attributes have been found.
RECURSIVE ScanTexcoords(_, _, _)
ScanTexcoords(m, i, found) ==
    IF i < num_attributes(m) /\ Len(found) < 2
    THEN IF attribute(m, i).attribute_type = "TEX_COORD"
         THEN ScanTexcoords(m, i + 1, Append(found, attribute(m, i)))
         ELSE ScanTexcoords(m, i + 1, found)
    ELSE found

\* texcoord_attrs[2], nullptr where no attribute was found.
FindTexcoords(m) ==
    LET found == ScanTexcoords(m, 0, <<>>)
    IN  [tc \in 0..1 |-> IF tc < Len(found) THEN found[tc + 1] ELSE NoAttr]

PositionStep(v, pos_attr, i) ==
    Store(v, OffPosition, GetValue(pos_attr, mapped_index(pos_attr, i)),
          pos_attr.num_components)

\* Variant: the normal is read at the raw point index, not the mapped one.
NormalStepUnmapped(v, normal_attr, i) ==
    IF ~IsNull(normal_attr)
    THEN Store(v, OffNormal, GetValue(normal_attr, i), normal_attr.num_components)
    ELSE Store(v, OffNormal, Floats(<<0, 0, 1>>), 3)

NormalStep(v, normal_attr, i) ==
    IF ~IsNull(normal_attr)
    THEN Store(v, OffNormal, GetValue(normal_attr, mapped_index(normal_attr, i)),
               normal_attr.num_components)
    ELSE Store(v, OffNormal, Floats(<<0, 0, 1>>), 3)

\* float color[4] = {1,1,1,1}; GetValue(..., color): slot k of the local
\* buffer after the call.  Slots 4.. lie past the buffer: GetValue wrote the
\* source components there.
ColorBuffer(color_attr, i) ==
    LET src == GetValue(color_attr, mapped_index(color_attr, i))
    IN  [k \in 0..((IF color_attr.num_components > ColorFloats
                    THEN color_attr.num_components ELSE ColorFloats) - 1) |->
            IF k < color_attr.num_components THEN src[k] ELSE 1]

\* Variant: the opaque default is left out.
OpaqueDefaultMissing(v, c) == v

\* if (num_components() < 4) v.color[3] = 1.0f;
OpaqueDefault(v, c) ==
    IF c < ColorFloats THEN Store(v, OffColor + 3, Floats(<<1>>), 1) ELSE v

ColorStep(v, color_attr, i) ==
    IF ~IsNull(color_attr)
    THEN OpaqueDefault(
             \* memcpy(v.color, color, sizeof(float) * num_components())
             Store(v, OffColor, ColorBuffer(color_attr, i),
                   color_attr.num_components),
             color_attr.num_components)
    ELSE Store(v, OffColor, Floats(<<1, 1, 1, 1>>), ColorFloats)

\* The colour step writes num_components floats through color[4] and through
\* v.color[4]: with more than 4 components both writes run past their array.
ColorOverrun(color_attr) ==
    ~IsNull(color_attr) /\ color_attr.num_components > ColorFloats

\* Variant: both rounds write texcoord0.
TexcoordSlotFirst(tc) == OffTexcoord0

TexcoordSlot(tc) == IF tc = 0 THEN OffTexcoord0 ELSE OffTexcoord1

\* One round of the loop over tc.
TexcoordRound(v, texcoord_attrs, tc, i) ==
    IF ~IsNull(texcoord_attrs[tc])
    THEN Store(v, TexcoordSlot(tc),
               GetValue(texcoord_attrs[tc], mapped_index(texcoord_attrs[tc], i)), 2)
    ELSE Store(v, TexcoordSlot(tc), Floats(<<0, 0>>), 2)

TexcoordStep(v, texcoord_attrs, i) ==
    TexcoordRound(TexcoordRound(v, texcoord_attrs, 0, i), texcoord_attrs, 1, i)

\* The body of the loop over the points: the Vertex stored to out->vertices[i].
BuildVertex(pos_attr, normal_attr, color_attr, texcoord_attrs, i) ==
    TexcoordStep(
        ColorStep(
            NormalStep(PositionStep(ZeroVertex, pos_attr, i), normal_attr, i),
            color_attr, i),
        texcoord_attrs, i)

\* The attribute handles are resolved once, before the loop.
BuildVertices(m) ==
    LET pos_attr       == GetNamedAttribute(m, "POSITION")
        normal_attr    == GetNamedAttribute(m, "NORMAL")
        color_attr     == GetNamedAttribute(m, "COLOR")
        texcoord_attrs == FindTexcoords(m)
    IN  [i \in 0..(m.num_points - 1) |->
            BuildVertex(pos_attr, normal_attr, color_attr, texcoord_attrs, i)]

\* ------------------------------------------------- decode: the index loop
\* Variant: one index per face.
IndexCountPerFace(m) == num_faces(m)

IndexCount(m) == num_faces(m) * 3

\* Variant: 1-based point indices.
FaceCornerOneBased(m, f, j) == face(m, f)[j] + 1

\* face[j].value()
FaceCorner(m, f, j) == face(m, f)[j]

\* Variant: the corners of each face are written in reverse.
BuildIndicesReversed(m) ==
    [k \in 0..(IndexCount(m) - 1) |-> FaceCorner(m, k \div 3, 2 - (k % 3))]

\* out->indices[i.value() * 3 + j] = face[j].value(), for every face and corner.
BuildIndices(m) ==
    [k \in 0..(IndexCount(m) - 1) |-> FaceCorner(m, k \div 3, k % 3)]

\* ------------------------------------------------------------ the program
VARIABLES
    buffer,      \* the caller's valid encoded stream
    out,         \* the caller's DecodedMesh
    heap,        \* the live arrays, by address
    brk,         \* the number of arrays allocated so far
    call,        \* the last call: operation, argument, result, and the
                 \* structure, live arrays and allocation count before it
    disciplined, \* no decode was called on a structure that owns arrays
    bad_free,    \* delete[] was applied to a pointer that is not a live array
    aborted      \* the process died in a call

vars == <<buffer, out, heap, brk, call, disciplined, bad_free, aborted>>

\* A DecodedMesh that owns nothing.
EmptyOut == [vertices |-> NULL, vertex_count |-> 0, indices |-> NULL, index_count |-> 0]

\* The byte buffers the caller passes: one the decoder rejects, and a valid
\* stream.
CorruptBuffer == [valid |-> FALSE]
ValidBuffer(stream) == [valid |-> TRUE, stream |-> stream]

\* decoder.DecodeMeshFromBuffer(&buffer): a StatusOr of the mesh.
DecodeMeshFromBuffer(data) ==
    IF data.valid
    THEN [ok |-> TRUE,
          value |-> MkMesh(data.stream.n, data.stream.types, data.stream.c,
                           data.stream.nf)]
    ELSE [ok |-> FALSE]

\* The state a call of decode leaves: return value, structure, heap, number of
\* allocations, whether the call ran into undefined behaviour.
Returned(ret, o, h, b, ub) == [ret |-> ret, out |-> o, heap |-> h, brk |-> b, ub |-> ub]

\* Variant: the structure is cleared on entry.
DecoderRejectedCleared(o, h, b) ==
    Returned(FALSE,
             [vertices |-> NULL, vertex_count |-> 0, indices |-> NULL, index_count |-> 0],
             h, b, FALSE)

\* if (!result.ok()) return false;
DecoderRejected(o, h, b) == Returned(FALSE, o, h, b, FALSE)

\* if (!pos_attr) return false;
MissingPosition(m, o, h, b) == Returned(FALSE, o, h, b, FALSE)

\* out->vertex_count = num_points; out->vertices = new Vertex[num_points];
\* ... out->vertices[i] = v;
FillVertices(m, o, h, b) ==
    Returned(TRUE,
             [o EXCEPT !.vertex_count = m.num_points, !.vertices = b + 1],
             h @@ ((b + 1) :> BuildVertices(m)),
             b + 1,
             ColorOverrun(GetNamedAttribute(m, "COLOR")) /\ m.num_points > 0)

\* out->index_count = num_faces * 3; out->indices = new uint32_t[index_count];
\* ... out->indices[...] = ...;
FillIndices(m, o, h, b) ==
    [ out  |-> [o EXCEPT !.index_count = IndexCount(m), !.indices = b + 1],
      heap |-> h @@ ((b + 1) :> BuildIndices(m)),
      brk  |-> b + 1 ]

decode_draco_mesh_interleaved(data, o, h, b) ==
    LET result == DecodeMeshFromBuffer(data)
    IN  IF ~result.ok THEN DecoderRejected(o, h, b)
        ELSE LET mesh == result.value
             IN  IF IsNull(GetNamedAttribute(mesh, "POSITION"))
                 THEN MissingPosition(mesh, o, h, b)
                 ELSE LET s1 == FillVertices(mesh, o, h, b)
                          s2 == FillIndices(mesh, s1.out, s1.heap, s1.brk)
                      IN  Returned(TRUE, s2.out, s2.heap, s2.brk, s1.ub)

\* delete[] p: nothing for nullptr, the array is gone for a live one.
Delete(h, p) == [a \in DOMAIN h \ {p} |-> h[a]]
InvalidDelete(h, p) == p # NULL /\ p \notin DOMAIN h

\* Variant: the counts are not reset.
free_keeps_counts(o, h) ==
    [ out  |-> [o EXCEPT !.vertices = NULL, !.indices = NULL],
      heap |-> Delete(Delete(h, o.vertices), o.indices),
      bad  |-> InvalidDelete(h, o.vertices)
               \/ InvalidDelete(Delete(h, o.vertices), o.indices) ]

\* Variant: the index array is not deleted.
free_leaks_indices(o, h) ==
    [ out  |-> [vertices |-> NULL, vertex_count |-> 0,
                indices |-> NULL, index_count |-> 0],
      heap |-> Delete(h, o.vertices),
      bad  |-> InvalidDelete(h, o.vertices) ]

free_decoded_mesh(o, h) ==
    [ out  |-> [vertices |-> NULL, vertex_count |-> 0,
                indices |-> NULL, index_count |-> 0],
      heap |-> Delete(Delete(h, o.vertices), o.indices),
      bad  |-> InvalidDelete(h, o.vertices)
               \/ InvalidDelete(Delete(h, o.vertices), o.indices) ]

Owns(o, h) == {o.vertices, o.indices} \cap DOMAIN h

NoCall == [op |-> "none"]

Init ==
    /\ IsStream(buffer)
    /\ out = EmptyOut
    /\ heap = <<>>
    /\ brk = 0
    /\ call = NoCall
    /\ disciplined = TRUE
    /\ bad_free = FALSE
    /\ aborted = FALSE

\* The caller calls decode on its structure, with a corrupt buffer or with the
\* valid stream.  A call that ran into undefined behaviour returns or kills the
\* process.
Decode ==
    /\ ~aborted
    /\ \E data \in {CorruptBuffer, ValidBuffer(buffer)} :
         \E r \in {decode_draco_mesh_interleaved(data, out, heap, brk)} :
         LET c == [op |-> "decode", valid |-> data.valid, before |-> out,
                   live |-> DOMAIN heap, allocs |-> brk, ub |-> r.ub]
         IN  /\ r.brk <= MaxAllocs
             /\ disciplined' = (disciplined /\ Owns(out, heap) = {})
             /\ \/ /\ out' = r.out
                   /\ heap' = r.heap
                   /\ brk' = r.brk
                   /\ call' = c @@ [returned |-> TRUE, ret |-> r.ret]
                   /\ UNCHANGED aborted
                \/ /\ r.ub
                   /\ aborted' = TRUE
                   /\ call' = c @@ [returned |-> FALSE, ret |-> FALSE]
                   /\ UNCHANGED <<out, heap, brk>>
    /\ UNCHANGED <<buffer, bad_free>>

\* The caller calls release on its structure.
Release ==
    /\ ~aborted
    /\ \E r \in {free_decoded_mesh(out, heap)} :
           /\ out' = r.out
           /\ heap' = r.heap
           /\ bad_free' = (bad_free \/ r.bad)
           /\ call' = [op |-> "free", before |-> out, live |-> DOMAIN heap,
                       allocs |-> brk]
    /\ UNCHANGED <<buffer, brk, disciplined, aborted>>

Next == Decode \/ Release

Spec == Init /\ [][Next]_vars

\* ------------------------------------------------------------- properties
\* The mesh the caller's valid stream decodes to.
Mesh == DecodeMeshFromBuffer(ValidBuffer(buffer)).value

\* The attributes of mesh m of role type, by position in the attribute list.
AttrIds(m, type) == {a \in 1..Len(m.attributes) : m.attributes[a].attribute_type = type}

\* The k-th smallest (k from 1) member of a set of numbers.
Nth(S, k) == CHOOSE a \in S : Cardinality({b \in S : b < a}) = k - 1

\* The source entry of attribute a of mesh m for point i.
Source(m, a, i) == m.attributes[a].values[m.attributes[a].indices_map[i]]

\* The last call was a decode that returned true / false.
Succeeded == call.op = "decode" /\ call.returned /\ call.ret
Failed == call.op = "decode" /\ call.returned /\ ~call.ret

\* The arrays the structure points to.
Vertices == heap[out.vertices]
Indices == heap[out.indices]

\* C1: whenever decode returns false, every field of the caller's structure
\* has the value it had before the call, and no array was allocated during
\* the call.
C1_FailureLeavesOutput ==
    Failed => /\ out = call.before
              /\ DOMAIN heap = call.live
              /\ brk = call.allocs

\* A decode the decoder rejected, on a structure that owns two arrays.
C1_Witness ==
    /\ Failed
    /\ ~call.valid
    /\ call.before.vertices \in call.live
    /\ call.before.indices \in call.live
    /\ call.before.vertex_count > 0

C3_IndicesInRange ==
    Succeeded => \A k \in 0..(out.index_count - 1) :
                    0 <= Indices[k] /\ Indices[k] < out.vertex_count

\* A successful decode that produced indices.
C3_Witness == Succeeded /\ out.index_count > 0

\* C4: release on a structure populated by a successful decode frees both
\* arrays and leaves the pointers null and the counts 0; release on the cleared
\* structure frees nothing and leaves it unchanged.
C4_Release ==
    call.op = "free"
    => /\ out = EmptyOut
       /\ DOMAIN heap = call.live \ {call.before.vertices, call.before.indices}
       /\ ~bad_free
       /\ call.before = EmptyOut => (out = call.before /\ DOMAIN heap = call.live)

\* A release of a structure cleared by an earlier release of decoded arrays.
C4_Witness == call.op = "free" /\ call.before = EmptyOut /\ call.allocs > 0

\* The structure owns no live array / exactly its two live arrays.
Unpopulated == DOMAIN heap = {} /\ out.vertices \notin DOMAIN heap
               /\ out.indices \notin DOMAIN heap
Populated == /\ DOMAIN heap = {out.vertices, out.indices}
             /\ out.vertices # out.indices

\* C5: while no decode is called on a structure that owns arrays, the
\* structure is unpopulated or populated with exactly the two arrays of the
\* last successful decode: a successful decode takes it from unpopulated to
\* populated with two fresh arrays, a release to unpopulated, a failed decode
\* leaves it as it was; nothing is leaked and nothing is freed twice.
C5_Lifecycle ==
    disciplined
    => /\ ~bad_free
       /\ Unpopulated \/ Populated
       /\ Succeeded => /\ call.live = {}
                       /\ Populated
                       /\ out.vertices > call.allocs
                       /\ out.indices > call.allocs
       /\ Failed => DOMAIN heap = call.live
       /\ call.op = "free" => Unpopulated

\* The structure populated by the second decode of a disciplined caller.
C5_Witness == disciplined /\ Succeeded /\ Populated /\ call.allocs = 2

\* C6: after a successful decode, without colour attribute every vertex's
\* colour is (1,1,1,1); with a 3-component colour attribute every vertex's
\* alpha is 1.0 and its RGB are the source's at the point's mapped index.
C6_Color ==
    Succeeded
    => \A m \in {Mesh}, i \in 0..(out.vertex_count - 1) :
          /\ AttrIds(m, "COLOR") = {} => color(Vertices[i]) = Floats(<<1, 1, 1, 1>>)
          /\ \A a \in AttrIds(m, "COLOR") :
                m.attributes[a].num_components = 3
                => /\ color(Vertices[i])[3] = 1
                   /\ \A k \in 0..2 : color(Vertices[i])[k] = Source(m, a, i)[k]

\* A successful decode of points with a 3-component colour.
C6_Witness ==
    /\ Succeeded
    /\ out.vertex_count > 1
    /\ \E a \in AttrIds(Mesh, "COLOR") : Mesh.attributes[a].num_components = 3

\* C7: after a successful decode, every vertex's normal is the source normal
\* at the point's mapped index when the mesh has a normal attribute, and
\* (0,0,1) when it has none.
C7_Normal ==
    Succeeded
    => \A m \in {Mesh}, i \in 0..(out.vertex_count - 1) :
          /\ AttrIds(m, "NORMAL") = {} => normal(Vertices[i]) = Floats(<<0, 0, 1>>)
          /\ \A a \in AttrIds(m, "NORMAL") : normal(Vertices[i]) = Source(m, a, i)

\* A successful decode of points with a normal attribute whose map is not the
\* identity.
C7_Witness ==
    /\ Succeeded
    /\ out.vertex_count > 1
    /\ \E a \in AttrIds(Mesh, "NORMAL") : Mesh.attributes[a].indices_map[0] # 0

\* C8: after a successful decode, texcoord0 of every vertex comes from the
\* first texture-coordinate attribute of the list and texcoord1 from the
\* second, later ones are ignored, and a slot without attribute is (0,0).
C8_Texcoords ==
    Succeeded
    => \A m \in {Mesh}, i \in 0..(out.vertex_count - 1) :
          /\ texcoord0(Vertices[i]) =
                IF Cardinality(AttrIds(m, "TEX_COORD")) >= 1
                THEN Source(m, Nth(AttrIds(m, "TEX_COORD"), 1), i)
                ELSE Floats(<<0, 0>>)
          /\ texcoord1(Vertices[i]) =
                IF Cardinality(AttrIds(m, "TEX_COORD")) >= 2
                THEN Source(m, Nth(AttrIds(m, "TEX_COORD"), 2), i)
                ELSE Floats(<<0, 0>>)

\* A successful decode of points with three texture-coordinate attributes.
C8_Witness ==
    Succeeded /\ out.vertex_count > 1 /\ Cardinality(AttrIds(Mesh, "TEX_COORD")) = 3

\* C9: a decode of a mesh with a colour attribute of c components writes
\* nothing outside the 4 colour floats in its colour step, and after it
\* succeeds colour slot k of every vertex is source component k for
\* k < min(c, 4) and 1.0 for c <= k < 4.
C9_ColorComponents ==
    (call.op = "decode" /\ call.valid)
    => /\ ~call.ub
       /\ Succeeded
          => \A m \in {Mesh}, i \in 0..(out.vertex_count - 1) :
                \A a \in AttrIds(m, "COLOR"), k \in 0..(ColorFloats - 1) :
                   color(Vertices[i])[k] =
                       IF k < m.attributes[a].num_components
                       THEN Source(m, a, i)[k] ELSE 1

\* C10: after a successful decode, entry 3 * f + j of the index array is the
\* point index of corner j of source face f.
C10_FaceOrder ==
    Succeeded
    => \A m \in {Mesh} :
          \A f \in 0..(Len(m.faces) - 1), j \in 0..2 :
             Indices[3 * f + j] = m.faces[f + 1][j]

\* A successful decode of two faces.
C10_Witness == Succeeded /\ Len(Mesh.faces) = 2

====
